---- MODULE Spec2Model ----
(***************************************************************************)
(* Model of PortfolioTracker (src/main_file.py): the holding store with    *)
(* its JSON persistence, and the valuation pass get_portfolio_data.        *)
(*                                                                         *)
(* Text that the code inspects character by character (stock symbols and   *)
(* forex pairs) is a sequence of one-character strings.  Metal names,      *)
(* bullion market symbols and timestamps are only stored and compared, so  *)
(* they are atomic strings.  Money is counted in cents, a raw closing      *)
(* price in thirds of a cent, so that round(.., 2) is a real rounding.     *)
(***************************************************************************)
EXTENDS Integers, Sequences, FiniteSets, TLC

(* Largest number of holdings the portfolio holds under Spec and
   SpecFaults. *)
MaxLen == 3

(* Largest number of holdings of a portfolio valued under SpecValuation. *)
MaxValued == 2

(* Largest number of writes of the portfolio file that fail in one run. *)
MaxFaults == 1

\* ------------------------------------------------------------------ text

LowerChars == <<"e", "u", "r", "s", "d", "x", "a">>
UpperChars == <<"E", "U", "R", "S", "D", "X", "A">>

\* str.upper() on one character: a lower-case letter maps to its capital,
\* every other character (capitals, "=") is kept.
UpperChar(c) ==
    IF \E i \in DOMAIN LowerChars : LowerChars[i] = c
    THEN UpperChars[CHOOSE i \in DOMAIN LowerChars : LowerChars[i] = c]
    ELSE c

\* str.upper()
upper(s) == [i \in 1..Len(s) |-> UpperChar(s[i])]

\* str.endswith(suffix)
endswith(s, suffix) ==
    /\ Len(s) >= Len(suffix)
    /\ SubSeq(s, Len(s) - Len(suffix) + 1, Len(s)) = suffix

MarketSuffix == <<"=", "X">>

\* str.replace(old, '') : every non-overlapping occurrence of old, scanned
\* from the left, is removed.
RECURSIVE replace_with_empty(_, _)
replace_with_empty(s, old) ==
    IF Len(s) < Len(old) THEN s
    ELSE IF SubSeq(s, 1, Len(old)) = old
         THEN replace_with_empty(SubSeq(s, Len(old) + 1, Len(s)), old)
         ELSE <<s[1]>> \o replace_with_empty(Tail(s), old)

\* ------------------------------------------------------------ portfolio

EmptyPortfolio == [stocks |-> <<>>, bullions |-> <<>>, forex |-> <<>>]

\* A symbol_map with the symbols of Platinum and Palladium exchanged.
symbol_map_swapped ==
    [m \in {"Gold", "Silver", "Platinum", "Palladium"} |->
        CASE m = "Gold" -> "GC=F"
          [] m = "Silver" -> "SI=F"
          [] m = "Platinum" -> "PA=F"
          [] m = "Palladium" -> "PL=F"]

\* the dict literal of add_bullion
symbol_map ==
    [m \in {"Gold", "Silver", "Platinum", "Palladium"} |->
        CASE m = "Gold" -> "GC=F"
          [] m = "Silver" -> "SI=F"
          [] m = "Platinum" -> "PL=F"
          [] m = "Palladium" -> "PA=F"]

\* Key order of the dict literal appended by each add operation (a Python
\* dict keeps insertion order, and json.dump writes in that order).
KeyOrder(category) ==
    CASE category = "stocks" ->
            <<"symbol", "quantity", "purchase_price", "date_added">>
      [] category = "bullions" ->
            <<"metal", "symbol", "quantity", "purchase_price", "date_added">>
      [] category = "forex" ->
            <<"pair", "quantity", "purchase_price", "date_added">>

TotalLen(p) == Len(p.stocks) + Len(p.bullions) + Len(p.forex)

\* ------------------------------------------------------- JSON document
\* The persisted document is the token sequence json.dump writes.

Tok(k, v) == [k |-> k, v |-> v]

IsNumberKey(key) == key \in {"quantity", "purchase_price"}

DumpValue(key, x) == IF IsNumberKey(key) THEN Tok("num", x) ELSE Tok("str", x)

RECURSIVE DumpFields(_, _)
DumpFields(h, keys) ==
    IF keys = <<>> THEN <<>>
    ELSE <<Tok("key", Head(keys)), DumpValue(Head(keys), h[Head(keys)])>>
            \o DumpFields(h, Tail(keys))

DumpHolding(h, category) ==
    <<Tok("{", 0)>> \o DumpFields(h, KeyOrder(category)) \o <<Tok("}", 0)>>

RECURSIVE DumpList(_, _)
DumpList(hs, category) ==
    IF hs = <<>> THEN <<>>
    ELSE DumpHolding(Head(hs), category) \o DumpList(Tail(hs), category)

DumpCategory(p, category) ==
    <<Tok("key", category), Tok("[", 0)>>
        \o DumpList(p[category], category) \o <<Tok("]", 0)>>

\* json.dump(self.portfolio, f)
json_dump(p) ==
    <<Tok("{", 0)>>
        \o DumpCategory(p, "stocks")
        \o DumpCategory(p, "bullions")
        \o DumpCategory(p, "forex")
        \o <<Tok("}", 0)>>

\* A parse yields [ok, val, next]: whether it succeeded, the value, and
\* the index of the first token not consumed.
ParseFail == [ok |-> FALSE, val |-> 0, next |-> 0]

KindAt(d, i) == IF i \in DOMAIN d THEN d[i].k ELSE "eof"

\* The dict built from the (key, value) pairs of an object, a later pair
\* overriding an earlier one with the same key.
MkDict(pairs) ==
    [key \in {pairs[j][1] : j \in DOMAIN pairs} |->
        pairs[CHOOSE j \in DOMAIN pairs :
                /\ pairs[j][1] = key
                /\ \A l \in DOMAIN pairs : pairs[l][1] = key => l <= j][2]]

RECURSIVE ParseObject(_, _, _)
ParseObject(d, i, pairs) ==
    IF KindAt(d, i) = "}" THEN [ok |-> TRUE, val |-> MkDict(pairs), next |-> i + 1]
    ELSE IF KindAt(d, i) = "key" /\ KindAt(d, i + 1) \in {"str", "num"}
         THEN ParseObject(d, i + 2, Append(pairs, <<d[i].v, d[i + 1].v>>))
         ELSE ParseFail

RECURSIVE ParseArray(_, _, _)
ParseArray(d, i, acc) ==
    IF KindAt(d, i) = "]" THEN [ok |-> TRUE, val |-> acc, next |-> i + 1]
    ELSE IF KindAt(d, i) = "{"
         THEN LET o == ParseObject(d, i + 1, <<>>)
              IN  IF o.ok THEN ParseArray(d, o.next, Append(acc, o.val))
                  ELSE ParseFail
         ELSE ParseFail

RECURSIVE ParseTop(_, _, _)
ParseTop(d, i, pairs) ==
    IF KindAt(d, i) = "}"
    THEN IF i = Len(d) /\ pairs # <<>>
         THEN [ok |-> TRUE, val |-> MkDict(pairs), next |-> i + 1]
         ELSE ParseFail
    ELSE IF KindAt(d, i) = "key" /\ KindAt(d, i + 1) = "["
         THEN LET a == ParseArray(d, i + 2, <<>>)
              IN  IF a.ok THEN ParseTop(d, a.next, Append(pairs, <<d[i].v, a.val>>))
                  ELSE ParseFail
         ELSE ParseFail

\* json.load(f): the parsed document, or a failure (JSONDecodeError).
json_load(d) == IF KindAt(d, 1) = "{" THEN ParseTop(d, 2, <<>>) ELSE ParseFail

NoFile == [exists |-> FALSE, doc |-> <<>>]
File(d) == [exists |-> TRUE, doc |-> d]

\* load_portfolio: the parse of the file when it exists, else the empty
\* portfolio.
load_portfolio(f) ==
    IF f.exists THEN json_load(f.doc)
    ELSE [ok |-> TRUE, val |-> EmptyPortfolio, next |-> 0]

\* A save_portfolio that returns without writing.
save_portfolio_skipped(p, f, wr) == {f}

\* The files save_portfolio can leave behind.  "ok": the whole document.
\* "open_fails": open(.., 'w') raised, the file is as it was.
\* "write_fails": open truncated the file and the write stopped part-way,
\* leaving a strict prefix of the document; the shortest and the longest
\* one stand for them all (none of them parses).
save_portfolio(p, f, wr) ==
    CASE wr = "ok" -> {File(json_dump(p))}
      [] wr = "open_fails" -> {f}
      [] wr = "write_fails" ->
            {File(SubSeq(json_dump(p), 1, n)) : n \in {0, Len(json_dump(p)) - 1}}

WriteOutcomes == {"ok", "open_fails", "write_fails"}

SaveReturn(wr) == IF wr = "ok" THEN "None" ELSE "OSError"

\* ---------------------------------------------------------------- state

VARIABLES
    portfolio,      \* self.portfolio
    disk,           \* the file self.portfolio_file
    last,           \* the last call: its name, arguments and outcome
    everRaised,     \* some call so far ended in an exception
    faults          \* how many writes of the file have failed so far

vars == <<portfolio, disk, last, everRaised, faults>>

Call(op, arg, ret, out) == [op |-> op, arg |-> arg, ret |-> ret, out |-> out]

Raised(ret) == ret \notin {"None", "True", "False", "returned"}

\* datetime.now().strftime(..)
Timestamps == {"2026-11-03 09:00:00"}

\* PortfolioTracker() with no portfolio file present
Init ==
    /\ disk = NoFile
    /\ portfolio = load_portfolio(NoFile).val
    /\ last = Call("__init__", <<>>, "None", <<>>)
    /\ everRaised = FALSE
    /\ faults = 0

\* The tail shared by the mutating operations: self.portfolio is already
\* newp when save_portfolio runs.
Commit(op, arg, newp, wr, okRet) ==
    /\ wr # "ok" => faults < MaxFaults
    /\ faults' = IF wr = "ok" THEN faults ELSE faults + 1
    /\ portfolio' = newp
    /\ disk' \in save_portfolio(newp, disk, wr)
    /\ last' = Call(op, arg, IF wr = "ok" THEN okRet ELSE SaveReturn(wr), <<>>)
    /\ everRaised' = (everRaised \/ wr # "ok")

\* The dict add_stock appends.
stock_holding(symbol, quantity, purchase_price, now) ==
    [symbol |-> upper(symbol),
     quantity |-> quantity,
     purchase_price |-> purchase_price,
     date_added |-> now]

add_stock(symbol, quantity, purchase_price, now, wr) ==
    Commit("add_stock", <<symbol, quantity, purchase_price>>,
           [portfolio EXCEPT !.stocks =
               Append(@, stock_holding(symbol, quantity, purchase_price, now))],
           wr, "None")

\* symbol_map[metal] is evaluated while the dict to append is being built:
\* an unknown metal raises KeyError before append and before save.
\* The dict add_bullion appends, for a metal of symbol_map.
bullion_holding(metal, quantity, purchase_price, now) ==
    [metal |-> metal,
     symbol |-> symbol_map[metal],
     quantity |-> quantity,
     purchase_price |-> purchase_price,
     date_added |-> now]

add_bullion(metal, quantity, purchase_price, now, wr) ==
    IF metal \in DOMAIN symbol_map
    THEN Commit("add_bullion", <<metal, quantity, purchase_price>>,
                [portfolio EXCEPT !.bullions =
                    Append(@, bullion_holding(metal, quantity, purchase_price, now))],
                wr, "None")
    ELSE /\ wr = "ok"
         /\ last' = Call("add_bullion", <<metal, quantity, purchase_price>>,
                         "KeyError", <<>>)
         /\ everRaised' = TRUE
         /\ UNCHANGED <<portfolio, disk, faults>>

\* The pair as add_forex stores it.
forex_pair(pair) ==
    IF ~endswith(pair, MarketSuffix) THEN upper(pair) \o MarketSuffix ELSE pair

\* The dict add_forex appends.
forex_holding(pair, quantity, purchase_price, now) ==
    [pair |-> forex_pair(pair),
     quantity |-> quantity,
     purchase_price |-> purchase_price,
     date_added |-> now]

add_forex(pair, quantity, purchase_price, now, wr) ==
    Commit("add_forex", <<pair, quantity, purchase_price>>,
           [portfolio EXCEPT !.forex =
               Append(@, forex_holding(pair, quantity, purchase_price, now))],
           wr, "None")

\* list.pop() without its argument: the last element goes.
pop_last(s, index) == SubSeq(s, 1, Len(s) - 1)

\* list.pop(index) for 0 <= index < len
pop(s, index) == SubSeq(s, 1, index) \o SubSeq(s, index + 2, Len(s))

\* The guard with its upper comparison off by one.
remove_guard_inclusive(p, category, index) ==
    /\ category \in DOMAIN p
    /\ 0 <= index
    /\ index <= Len(p[category])

\* The guard of remove_holding.
remove_guard(p, category, index) ==
    /\ category \in DOMAIN p
    /\ 0 <= index
    /\ index < Len(p[category])

remove_holding(category, index, wr) ==
    IF remove_guard(portfolio, category, index)
    THEN Commit("remove_holding", <<category, index>>,
                [portfolio EXCEPT ![category] = pop(@, index)], wr, "True")
    ELSE /\ wr = "ok"
         /\ last' = Call("remove_holding", <<category, index>>, "False", <<>>)
         /\ UNCHANGED <<portfolio, disk, everRaised, faults>>

clear_portfolio(wr) ==
    Commit("clear_portfolio", <<>>, EmptyPortfolio, wr, "None")

\* A new session constructs a new tracker from the file (the module-level
\* `if 'tracker' not in st.session_state`).  When the file does not parse,
\* load_portfolio raises and no new tracker replaces the current one.
PortfolioTracker_init ==
    LET loaded == load_portfolio(disk)
    IN  /\ portfolio' = IF loaded.ok THEN loaded.val ELSE portfolio
        /\ last' = Call("__init__", <<>>,
                        IF loaded.ok THEN "None" ELSE "JSONDecodeError", <<>>)
        /\ everRaised' = (everRaised \/ ~loaded.ok)
        /\ UNCHANGED <<disk, faults>>

\* ------------------------------------------------------------ valuation

\* round(current_price, 2): a price in thirds of a cent to the nearest cent.
round2(close) == (2 * close + 3) \div 6

\* What ticker.history(period='1d') does: raises, returns no rows, or
\* returns rows whose last Close is `close`.
Answer(kind, close) == [kind |-> kind, close |-> close]

get_current_price(answer) ==
    CASE answer.kind = "data" -> <<round2(answer.close), "Success">>
      [] answer.kind = "empty" -> <<0, "No data">>
      [] answer.kind = "error" -> <<0, "Error">>

\* (pnl / invested) * 100.  A zero divisor raises ZeroDivisionError when
\* the operands are Python floats, and gives inf or nan when the price is
\* a numpy float64 (which is what round() of a pandas cell returns).
Finite(num, den) == [kind |-> "finite", num |-> num, den |-> den]

pnl_pct(pnl, invested, numpy) ==
    IF invested # 0 THEN Finite(pnl * 100, invested)
    ELSE IF ~numpy THEN [kind |-> "ZeroDivisionError", num |-> 0, den |-> 0]
    ELSE IF pnl > 0 THEN [kind |-> "inf", num |-> 0, den |-> 0]
    ELSE IF pnl < 0 THEN [kind |-> "-inf", num |-> 0, den |-> 0]
    ELSE [kind |-> "nan", num |-> 0, den |-> 0]

\* The f-string formats of the row: the format and the number formatted.
Fmt(f, x) == [fmt |-> f, v |-> x]

TypeLabel(category) ==
    CASE category = "stocks" -> "Stock"
      [] category = "bullions" -> "Bullion"
      [] category = "forex" -> "Forex"

\* The symbol handed to get_current_price.
LookupSymbol(category, h) == IF category = "forex" THEN h.pair ELSE h.symbol

\* The 'Symbol' cell of the row.
DisplaySymbol(category, h) ==
    CASE category = "stocks" -> h.symbol
      [] category = "bullions" -> h.metal
      [] category = "forex" -> replace_with_empty(h.pair, MarketSuffix)

PriceFormat(category) == IF category = "forex" THEN ".4f" ELSE "$.2f"

EmptyAcc ==
    [all_holdings |-> <<>>, total_invested |-> 0, total_current |-> 0,
     lookups |-> <<>>, raised |-> FALSE]

\* One of the three for-loops of get_portfolio_data.  The k-th call of
\* get_current_price in the pass gets answers[k].
RECURSIVE ProcessCategory(_, _, _, _, _)
ProcessCategory(category, hs, answers, numpy, acc) ==
    IF hs = <<>> \/ acc.raised THEN acc
    ELSE
      LET h == Head(hs)
          qty == h.quantity
          buy_price == h.purchase_price
          current_price == get_current_price(answers[Len(acc.lookups) + 1])[1]
          acc1 == [acc EXCEPT !.lookups = Append(@, LookupSymbol(category, h))]
          invested == qty * buy_price
          current_value == qty * current_price
          pnl == current_value - invested
          pct == pnl_pct(pnl, invested, numpy)
      IN  IF current_price > 0
          THEN IF pct.kind = "ZeroDivisionError"
               THEN [acc1 EXCEPT !.raised = TRUE]
               ELSE ProcessCategory(category, Tail(hs), answers, numpy,
                      [acc1 EXCEPT
                         !.total_invested = @ + invested,
                         !.total_current = @ + current_value,
                         !.all_holdings = Append(@,
                            [Type |-> TypeLabel(category),
                             Symbol |-> DisplaySymbol(category, h),
                             Quantity |-> qty,
                             BuyPrice |-> Fmt(PriceFormat(category), buy_price),
                             CurrentPrice |-> Fmt(PriceFormat(category), current_price),
                             Invested |-> invested,
                             CurrentValue |-> current_value,
                             PnL |-> pnl,
                             PnLPct |-> pct,
                             DateAdded |-> h.date_added])])
          ELSE ProcessCategory(category, Tail(hs), answers, numpy, acc1)

\* total_current - total_invested if total_invested > 0 else 0
total_pnl(total_invested, total_current) ==
    IF total_invested > 0 THEN total_current - total_invested ELSE 0

\* The loops over forex and over bullions exchanged.
ValuationOrder_forex_second == <<"stocks", "forex", "bullions">>

\* The order in which get_portfolio_data walks the categories.
ValuationOrder == <<"stocks", "bullions", "forex">>

RECURSIVE ProcessAll(_, _, _, _, _)
ProcessAll(p, order, answers, numpy, acc) ==
    IF order = <<>> THEN acc
    ELSE ProcessAll(p, Tail(order), answers, numpy,
            ProcessCategory(Head(order), p[Head(order)], answers, numpy, acc))

\* What get_portfolio_data returns, or the exception it ends in.
portfolio_data(p, answers, numpy) ==
    LET acc == ProcessAll(p, ValuationOrder, answers, numpy, EmptyAcc)
    IN  IF acc.raised
        THEN [ret |-> "ZeroDivisionError", df |-> <<>>, total_invested |-> 0,
              total_current |-> 0, total_pnl |-> 0, lookups |-> acc.lookups]
        ELSE [ret |-> "returned", df |-> acc.all_holdings,
              total_invested |-> acc.total_invested,
              total_current |-> acc.total_current,
              total_pnl |-> total_pnl(acc.total_invested, acc.total_current),
              lookups |-> acc.lookups]

get_portfolio_data(answers, numpy) ==
    LET r == portfolio_data(portfolio, answers, numpy)
    IN  /\ last' = Call("get_portfolio_data", answers, r.ret, r)
        /\ everRaised' = (everRaised \/ Raised(r.ret))
        /\ UNCHANGED <<portfolio, disk, faults>>

\* ------------------------------------------------------- specifications

\* Inputs of Spec and SpecFaults: text in every shape the add operations
\* treat differently, with one quantity and price, and one stock that has
\* no symbol, no quantity and no price.
Text(symbol, quantity, purchase_price) == <<symbol, quantity, purchase_price>>

EURUSD == <<"E", "U", "R", "U", "S", "D">>
eurusd == <<"e", "u", "r", "u", "s", "d">>

StockInputs == {Text(<<"a">>, 1, 1), Text(<<>>, 0, 0)}
BullionInputs ==
    {Text(metal, 1, 1) :
        metal \in {"Gold", "Silver", "Platinum", "Palladium", "gold"}}
ForexInputs ==
    {Text(pair, 1, 1) :
        pair \in {eurusd, EURUSD, eurusd \o <<"=", "X">>,
                  EURUSD \o <<"=", "X">>, eurusd \o <<"=", "x">>}}
RemoveCategories == {"stocks", "bullions", "forex", "crypto"}
RemoveIndices == (-1)..MaxLen

AddStock(outcomes) ==
    \E in \in StockInputs, now \in Timestamps, wr \in outcomes :
        /\ TotalLen(portfolio) < MaxLen
        /\ add_stock(in[1], in[2], in[3], now, wr)

AddBullion(outcomes) ==
    \E in \in BullionInputs, now \in Timestamps, wr \in outcomes :
        /\ TotalLen(portfolio) < MaxLen
        /\ add_bullion(in[1], in[2], in[3], now, wr)

AddForex(outcomes) ==
    \E in \in ForexInputs, now \in Timestamps, wr \in outcomes :
        /\ TotalLen(portfolio) < MaxLen
        /\ add_forex(in[1], in[2], in[3], now, wr)

RemoveHolding(outcomes) ==
    \E category \in RemoveCategories, index \in RemoveIndices, wr \in outcomes :
        remove_holding(category, index, wr)

ClearPortfolio(outcomes) == \E wr \in outcomes : clear_portfolio(wr)

\* The store with a file system on which every write succeeds.
Next ==
    \/ AddStock({"ok"})
    \/ AddBullion({"ok"})
    \/ AddForex({"ok"})
    \/ RemoveHolding({"ok"})
    \/ ClearPortfolio({"ok"})
    \/ PortfolioTracker_init

Spec == Init /\ [][Next]_vars

\* The store with a file system on which a write may fail.
FaultNext ==
    \/ AddStock(WriteOutcomes)
    \/ AddBullion(WriteOutcomes)
    \/ AddForex(WriteOutcomes)
    \/ RemoveHolding(WriteOutcomes)
    \/ ClearPortfolio(WriteOutcomes)
    \/ PortfolioTracker_init

SpecFaults == Init /\ [][FaultNext]_vars

\* SpecValuation: a tracker constructed from a portfolio file written by
\* earlier add operations, with quantities and prices of every sign, and
\* one valuation pass over it with every kind of oracle answer.
ValuationNumbers == {<<2, 2>>, <<0, 2>>, <<2, 0>>, <<-1, 2>>}
ValuationCloses == {-3, 1, 9}
Answers ==
    {Answer("error", 0), Answer("empty", 0)}
        \cup {Answer("data", close) : close \in ValuationCloses}

SeqsUpTo(S, n) == UNION {[1..k -> S] : k \in 0..n}

ValuedPortfolios ==
    {p \in [stocks : SeqsUpTo({stock_holding(<<"a">>, in[1], in[2], now) :
                                in \in ValuationNumbers, now \in Timestamps},
                              MaxValued),
            bullions : SeqsUpTo({bullion_holding("Gold", in[1], in[2], now) :
                                in \in ValuationNumbers, now \in Timestamps},
                              MaxValued),
            forex : SeqsUpTo({forex_holding(eurusd, in[1], in[2], now) :
                                in \in ValuationNumbers, now \in Timestamps},
                              MaxValued)] :
        TotalLen(p) <= MaxValued}

ValuationInit ==
    /\ portfolio \in ValuedPortfolios
    /\ disk = File(json_dump(portfolio))
    /\ load_portfolio(disk).val = portfolio
    /\ last = Call("__init__", <<>>, "None", <<>>)
    /\ everRaised = FALSE
    /\ faults = 0

ValuationNext ==
    \E answers \in [1..TotalLen(portfolio) -> Answers], numpy \in BOOLEAN :
        /\ last.op = "__init__"
        /\ get_portfolio_data(answers, numpy)

SpecValuation == ValuationInit /\ [][ValuationNext]_vars

\* ---------------------------------------------------------------- claims

MutatingOps ==
    {"add_stock", "add_bullion", "add_forex", "remove_holding", "clear_portfolio"}

\* The category names of the portfolio document.
KnownCategories == {"stocks", "bullions", "forex"}

\* i is a position of the list p[category].
InRange(p, category, i) ==
    /\ category \in KnownCategories
    /\ i \in 0..(Len(p[category]) - 1)

\* C1: after a mutating call, in a run in which every call so far returned
\* normally, load_portfolio succeeds on the portfolio file and yields
\* exactly the in-memory portfolio.
RoundTripPersistence ==
    (~everRaised /\ last.op \in MutatingOps) =>
        /\ load_portfolio(disk).ok
        /\ load_portfolio(disk).val = portfolio

\* C1 witness: an add_forex has just returned, no call has raised, and the
\* reloaded file holds a holding of each category.
RoundTripWitness ==
    /\ ~everRaised
    /\ last.op = "add_forex"
    /\ Len(portfolio.stocks) > 0
    /\ Len(portfolio.bullions) > 0
    /\ disk.exists
    /\ load_portfolio(disk).val = portfolio

\* C3: a remove_holding whose category is unknown or whose index is not a
\* position of that category's list returns False and changes neither the
\* in-memory portfolio nor the file.
RemoveOutOfRangeIsNoOp ==
    [][(last'.op = "remove_holding"
            /\ ~InRange(portfolio, last'.arg[1], last'.arg[2]))
        => (/\ last'.ret = "False"
            /\ portfolio' = portfolio
            /\ disk' = disk)]_vars

\* C3 witness: remove_holding("stocks", len(stocks)) on a non-empty list has
\* returned False.
RemoveOutOfRangeWitness ==
    /\ last.op = "remove_holding"
    /\ last.ret = "False"
    /\ last.arg[1] = "stocks"
    /\ Len(portfolio.stocks) > 0
    /\ last.arg[2] = Len(portfolio.stocks)
    /\ disk.exists

Identity(category, h) == IF category = "forex" THEN h.pair ELSE h.symbol

\* C4 (as claimed): every stored holding has quantity > 0, purchase price > 0
\* and a non-empty symbol or pair.
StoredHoldingsValid ==
    \A category \in KnownCategories :
        \A j \in DOMAIN portfolio[category] :
            /\ portfolio[category][j].quantity > 0
            /\ portfolio[category][j].purchase_price > 0
            /\ Identity(category, portfolio[category][j]) # <<>>

\* C5 (as claimed): when the write of a mutating operation fails, the
\* in-memory portfolio is what it was before the call.
FailedPersistLeavesMemory ==
    [][(last'.op \in MutatingOps /\ last'.ret = "OSError")
        => portfolio' = portfolio]_vars

\* The pair without a trailing "=X" in either letter case.
StripSuffix(pair) ==
    IF endswith(upper(pair), MarketSuffix)
    THEN SubSeq(pair, 1, Len(pair) - Len(MarketSuffix))
    ELSE pair

\* The identifier of a currency pair: upper case, one "=X" at the end.
CanonicalPair(pair) == upper(StripSuffix(pair)) \o MarketSuffix

\* C7 (as claimed): add_forex stores the canonical identifier of its input,
\* whatever the letter case and whether or not the suffix is present.
ForexStoredCanonical ==
    (last.op = "add_forex" /\ last.ret = "None") =>
        portfolio.forex[Len(portfolio.forex)].pair = CanonicalPair(last.arg[1])

\* The market symbol of each metal, as the claim lists them.
FixedSymbol(metal) ==
    CASE metal = "Gold" -> "GC=F"
      [] metal = "Silver" -> "SI=F"
      [] metal = "Platinum" -> "PL=F"
      [] metal = "Palladium" -> "PA=F"
      [] OTHER -> "none"

\* C8: add_bullion with one of the four metals appends a holding of that
\* metal with the metal's fixed symbol and changes no earlier holding; with
\* any other metal it raises and changes neither the portfolio nor the
\* file; and after every step each stored bullion carries the fixed symbol
\* of its metal.
BullionSymbolFixed ==
    [][/\ last'.op = "add_bullion" =>
            IF last'.arg[1] \in {"Gold", "Silver", "Platinum", "Palladium"}
            THEN /\ Len(portfolio'.bullions) = Len(portfolio.bullions) + 1
                 /\ SubSeq(portfolio'.bullions, 1, Len(portfolio.bullions))
                        = portfolio.bullions
                 /\ portfolio'.bullions[Len(portfolio'.bullions)].metal
                        = last'.arg[1]
                 /\ portfolio'.bullions[Len(portfolio'.bullions)].symbol
                        = FixedSymbol(last'.arg[1])
            ELSE /\ Raised(last'.ret)
                 /\ portfolio' = portfolio
                 /\ disk' = disk
       /\ \A j \in DOMAIN portfolio'.bullions :
            portfolio'.bullions[j].symbol = FixedSymbol(portfolio'.bullions[j].metal)
      ]_vars

\* C8 witness: add_bullion("gold", ..) has been rejected while the
\* portfolio holds a Palladium and a Silver bullion.
BullionWitness ==
    /\ last.op = "add_bullion"
    /\ last.arg[1] = "gold"
    /\ last.ret = "KeyError"
    /\ \E j \in DOMAIN portfolio.bullions : portfolio.bullions[j].symbol = "PA=F"
    /\ \E j \in DOMAIN portfolio.bullions : portfolio.bullions[j].symbol = "SI=F"

\* C10: remove_holding with a position i of a known category deletes the
\* holding at i and no other: the list is one shorter, the holdings before
\* i keep their place, those after i move up by one, the other categories
\* are untouched; when the write succeeds it returns True and the file
\* parses to the new portfolio.  With any other argument nothing is removed.
RemoveDeletesExactlyOne ==
    [][last'.op = "remove_holding" =>
        LET category == last'.arg[1]
            i == last'.arg[2]
        IN  IF InRange(portfolio, category, i)
            THEN /\ Len(portfolio'[category]) = Len(portfolio[category]) - 1
                 /\ \A j \in 1..Len(portfolio'[category]) :
                        portfolio'[category][j] =
                            portfolio[category][IF j <= i THEN j ELSE j + 1]
                 /\ \A other \in KnownCategories \ {category} :
                        portfolio'[other] = portfolio[other]
                 /\ last'.ret # "OSError" =>
                        /\ last'.ret = "True"
                        /\ load_portfolio(disk').ok
                        /\ load_portfolio(disk').val = portfolio'
            ELSE /\ portfolio' = portfolio
                 /\ last'.ret = "False"]_vars

\* C10 witness: the middle one of three forex holdings has been removed,
\* and the two that remain differ.
RemoveWitness ==
    /\ last.op = "remove_holding"
    /\ last.ret = "True"
    /\ last.arg = <<"forex", 1>>
    /\ Len(portfolio.forex) = 2
    /\ portfolio.forex[1] # portfolio.forex[2]

\* --- valuation claims

\* The holdings in the order stocks, bullions, forex, each with its
\* category and the price fetched for it: the k-th call of the pass.
Tagged(p, category, offset, answers) ==
    [j \in 1..Len(p[category]) |->
        [category |-> category, h |-> p[category][j],
         price |-> get_current_price(answers[offset + j])[1]]]

AllTagged(p, answers) ==
    Tagged(p, "stocks", 0, answers)
        \o Tagged(p, "bullions", Len(p.stocks), answers)
        \o Tagged(p, "forex", Len(p.stocks) + Len(p.bullions), answers)

InvestedOf(e) == e.h.quantity * e.h.purchase_price
CurrentOf(e) == e.h.quantity * e.price

RECURSIVE SumInvested(_)
SumInvested(seq) ==
    IF seq = <<>> THEN 0 ELSE InvestedOf(Head(seq)) + SumInvested(Tail(seq))

RECURSIVE SumCurrent(_)
SumCurrent(seq) ==
    IF seq = <<>> THEN 0 ELSE CurrentOf(Head(seq)) + SumCurrent(Tail(seq))

\* The rows of r are exactly the entries `kept`, in order, and the totals
\* are the sums over `kept`.
RowsAre(r, kept) ==
    /\ Len(r.df) = Len(kept)
    /\ \A j \in 1..Len(kept) :
        /\ r.df[j].Type = TypeLabel(kept[j].category)
        /\ r.df[j].Quantity = kept[j].h.quantity
        /\ r.df[j].BuyPrice.v = kept[j].h.purchase_price
        /\ r.df[j].CurrentPrice.v = kept[j].price
        /\ r.df[j].DateAdded = kept[j].h.date_added
        /\ r.df[j].Invested = InvestedOf(kept[j])
        /\ r.df[j].CurrentValue = CurrentOf(kept[j])
    /\ r.total_invested = SumInvested(kept)
    /\ r.total_current = SumCurrent(kept)

PriceNonZero(e) == e.price # 0
PricePositive(e) == e.price > 0

Returned == last.op = "get_portfolio_data" /\ last.ret = "returned"

TotalPnlGuarded ==
    Returned =>
        IF last.out.total_invested = 0
        THEN last.out.total_pnl = 0
        ELSE last.out.total_pnl = last.out.total_current - last.out.total_invested

\* C9 (as claimed): when a holding with a positive fetched price has an
\* invested amount of 0, get_portfolio_data returns, and every position
\* with invested amount 0 reports a P&L % of 0.
ZeroInvestedPctIsZero ==
    (/\ last.op = "get_portfolio_data"
     /\ \E k \in DOMAIN AllTagged(portfolio, last.arg) :
            LET e == AllTagged(portfolio, last.arg)[k]
            IN  e.price > 0 /\ InvestedOf(e) = 0)
    => /\ last.ret = "returned"
       /\ \A j \in DOMAIN last.out.df :
            last.out.df[j].Invested = 0 =>
                /\ last.out.df[j].PnLPct.kind = "finite"
                /\ last.out.df[j].PnLPct.num = 0
====
